---- MODULE Spec2Model ----
(***************************************************************************)
(* A state-machine model of the LinkedIn automation tool:                  *)
(*   - the connection flow (pkg/connection, in src/pkg/stealth/stealth.go) *)
(*     run by one or several sessions against one SQLite database,         *)
(*   - the orchestrator main (src/main.go) with the schedule gate,         *)
(*   - the behaviour generators of pkg/stealth: HumanType, ScrollHumanLike,*)
(*     moveMouseToElement, and a Stealth instance over two runs (Apply,    *)
(*     RandomDelay, HumanClick).                                           *)
(* Random draws of rng.Float64() are points k/Grid of [0,1), probabilities *)
(* are points n/Grid of [0,1]; rng.Intn(n) draws from 0..n-1.              *)
(***************************************************************************)
EXTENDS Integers, Sequences, FiniteSets, Bags, TLC

VARIABLES
    now,                  \* the wall clock, in ticks (time.Now())
    connection_requests,  \* the rows of table connection_requests, a bag
    dailyLimit,           \* config Connections.DailyLimit
    invited,              \* the profiles the connect interaction was carried out for
    conn,                 \* per session: the position and locals of SendConnectionRequests
    scheduling,           \* config Stealth.Scheduling
    hour,                 \* time.Now().Hour() during the run of main
    mode,                 \* the -mode flag
    mainPc,               \* the position of main
    gate,                 \* what ShouldOperate returned to main
    ran,                  \* the phases main has run, in order
    lastBreak,            \* seconds slept by the last RandomBreak (0: no break)
    exitCode,             \* the exit status of main (-1: running)
    typing,               \* config Stealth.Typing
    text,                 \* the text HumanType is asked to type
    typePc,               \* the position of HumanType
    typeI,                \* the index in text of the next character
    keys,                 \* the keystrokes sent to the element, in order
    lastDelay,            \* the keystroke delay drawn last, in ms
    scrolling,            \* config Stealth.Scrolling, with Timing.ScrollSpeedVariance
    distance,             \* the distance ScrollHumanLike is asked to scroll
    scrollPc,             \* the position of ScrollHumanLike
    steps,                \* the step count drawn
    scrollI,              \* the loop index i
    forward,              \* the sum of the step deltas issued by the loop
    back,                 \* the delta of the scroll-back segment (0: none)
    negDeltas,            \* how many negative deltas ScrollHumanLike has issued
    lastNegative,         \* the delta issued last was negative
    mouse,                \* config Stealth.MouseMovement
    axis,                 \* the coordinate followed: "x" or "y"
    box,                  \* the centre of the element's box on that axis, in pixels
    current,              \* currentX / currentY: the viewport centre
    target,               \* targetX / targetY
    cp1,                  \* cp1X / cp1Y
    cp2,                  \* cp2X / cp2Y
    mouseSteps,           \* the step count drawn by moveMouseToElement
    mouseI,               \* the loop index i of moveMouseToElement
    firstPoint,           \* the coordinate of the first Mouse.Move
    lastPoint,            \* the coordinate of the last Mouse.Move
    sleepsPositive,       \* every sleep after a move so far was longer than 0
    wentPast,             \* some move went beyond the target, away from the start
    mousePc,              \* the position of moveMouseToElement
    timing,               \* config Stealth.Timing
    hovering,             \* config Stealth.Hovering
    fingerprint,          \* config Stealth.Fingerprint
    movement,             \* config Stealth.MouseMovement.Enabled
    stream,               \* the draws the source of Stealth.rng yields, in order
    run,                  \* per run of the program: its Stealth instance and outputs
    daily_stats,          \* table daily_stats: the row of each date that has one
    statsCall,            \* the last call on daily_stats: function, time, error
    statsResult,          \* what the last GetDailyStats returned
    statsCalls,           \* how many calls were made on daily_stats
    searchPc,             \* SearchProfiles: its position
    profileRows,          \* the URLs of the rows of table profiles
    storedBefore,         \* the URLs stored before the search
    maxResults,           \* config Search.MaxResults
    found,                \* SearchProfiles: the list profiles it returns
    pageProfiles,         \* SearchProfiles: the cards of the current page
    cardI,                \* SearchProfiles: the index in pageProfiles
    pageNum,              \* SearchProfiles: the page number
    messages,             \* the profile URLs of the rows of table messages
    delivered,            \* messages sent in the browser, per profile URL
    msgPc,                \* messaging: the running loop
    msgList,              \* messaging: the list the loop ranges over
    msgI,                 \* messaging: the index in msgList
    msgCalls,             \* messaging: calls made
    loginPc,              \* Login: its position
    loggedIn,             \* the browser shows the feed
    loginClock,           \* time since the page was created
    browserTimeout,       \* config Browser.Timeout
    waitUntil,            \* Login: the deadline of the polling loop
    checkpoint,           \* Login: hasSecurityCheckpoint()
    typed,                \* Login: the credentials were typed
    lastCheck,            \* Login: the result of the last isLoggedIn()
    observed,             \* Login: a check after the form returned true
    sessionExisted        \* Login: the first check returned true

connVars == <<now, connection_requests, dailyLimit, invited, conn>>
mainVars == <<scheduling, hour, mode, mainPc, gate, ran, lastBreak, exitCode>>
typeVars == <<typing, text, typePc, typeI, keys, lastDelay>>
scrollVars == <<scrolling, distance, scrollPc, steps, scrollI, forward, back,
                negDeltas, lastNegative>>
mouseVars == <<mouse, axis, box, current, target, cp1, cp2, mouseSteps, mouseI,
               firstPoint, lastPoint, sleepsPositive, wentPast, mousePc>>
runVars == <<timing, hovering, fingerprint, movement, stream, run>>
statsVars == <<daily_stats, statsCall, statsResult, statsCalls>>
searchVars == <<searchPc, profileRows, storedBefore, maxResults, found,
               pageProfiles, cardI, pageNum>>
msgVars == <<messages, delivered, msgPc, msgList, msgI, msgCalls>>
loginVars == <<loginPc, loggedIn, loginClock, browserTimeout, waitUntil,
              checkpoint, typed, lastCheck, observed, sessionExisted>>
vars == <<connVars, mainVars, typeVars, scrollVars, mouseVars, runVars, statsVars,
         searchVars, msgVars, loginVars>>

----------------------------------------------------------------------------
(* Bounds of the model *)

NumProfiles == 3        \* rows of table profiles
MaxDailyLimit == 2      \* Connections.DailyLimit ranges over 1..MaxDailyLimit
MaxTime == 7            \* the clock stops after MaxTime ticks
DayLen == 3             \* ticks per calendar date
ConnectionCooldown == 2 \* Stealth.RateLimiting.ConnectionCooldown, in ticks
MaxCalls == 4           \* calls of SendConnectionRequests of the single session
MaxConcurrentCalls == 1 \* calls of SendConnectionRequests per concurrent session

Grid == 4               \* rng.Float64() draws k/Grid, probabilities are n/Grid
MaxTextLen == 3         \* the longest text typed
MaxStatsCalls == 4      \* calls made on table daily_stats
MaxResultsBound == 2    \* Search.MaxResults ranges over 0..MaxResultsBound
MaxCards == 2           \* profile cards on a result page
MaxPages == 2           \* result pages of a search
MaxListLen == 2         \* the longest list of SendBulkMessages / pending connections
MaxMsgCalls == 3        \* calls of the messaging functions

Sessions == {"s1", "s2"}

\* rng.Float64(): a point of [0,1), as its numerator over Grid
Float64 == 0..(Grid - 1)

\* a probability of the configuration: a point of [0,1], as its numerator over Grid
Probabilities == 0..Grid

\* rng.Intn(n): 0..n-1
Intn(n) == 0..(n - 1)

\* the draws of rng.Intn(n) explored when n is large: both ends and the middle
IntnEnds(n) == {k \in Intn(n) : k <= 1 \/ k >= n - 2 \/ k = n \div 2}

\* Go's conversion int(n/d) of a quotient, d > 0: truncation toward zero
Trunc(n, d) == IF n >= 0 THEN n \div d ELSE -((-n) \div d)

Profiles == 1..NumProfiles

\* DATE(sent_at), DATE('now'): the calendar date of a time
Date(t) == t \div DayLen

----------------------------------------------------------------------------
(* The schedule gate (pkg/stealth) and the orchestrator main *)

BreakMin == 60     \* seconds: the shortest break of RandomBreak
BreakSpan == 300   \* RandomBreak draws rng.Intn(300)

\* the draws of rng.Intn(300) explored: the first and the last second of each minute
BreakDraws == {n \in Intn(BreakSpan) : n % 60 = 0 \/ n % 60 = 59}

Modes == {"search", "connect", "message", "all", "bogus"}

\* (StartHour, EndHour) of the configurations explored
HourRanges == {<<9, 17>>, <<0, 24>>, <<17, 9>>}

\* ShouldOperate with the end hour taken as inside the window
ShouldOperate_EndInclusive(cfg, h) ==
    IF ~cfg.Enabled \/ ~cfg.BusinessHoursOnly THEN TRUE
    ELSE h >= cfg.StartHour /\ h <= cfg.EndHour

\* ShouldOperate at hour h
ShouldOperate(cfg, h) ==
    IF ~cfg.Enabled \/ ~cfg.BusinessHoursOnly THEN TRUE
    ELSE h >= cfg.StartHour /\ h < cfg.EndHour

\* RandomBreak with the draws f of rng.Float64() and n of rng.Intn(300): the
\* seconds it sleeps, 0 when it takes no break
RandomBreak(cfg, f, n) ==
    IF ~cfg.Enabled THEN 0
    ELSE IF f < cfg.BreakProbability THEN n + BreakMin
    ELSE 0

\* main has not started
MainIdle ==
    /\ scheduling = [Enabled |-> FALSE, BusinessHoursOnly |-> FALSE,
                     StartHour |-> 0, EndHour |-> 0, BreakProbability |-> 0]
    /\ hour = 0
    /\ mode = "search"
    /\ mainPc = "start"
    /\ gate = FALSE
    /\ ran = <<>>
    /\ lastBreak = 0
    /\ exitCode = -1

MainInit ==
    /\ scheduling \in {[Enabled |-> e, BusinessHoursOnly |-> b, StartHour |-> r[1],
                        EndHour |-> r[2], BreakProbability |-> p] :
                          e \in BOOLEAN, b \in BOOLEAN, r \in HourRanges,
                          p \in Probabilities}
    /\ hour \in 0..23
    /\ mode \in Modes
    /\ mainPc = "start"
    /\ gate = FALSE
    /\ ran = <<>>
    /\ lastBreak = 0
    /\ exitCode = -1

\* main.go:79: the schedule check; outside business hours it only logs
CheckSchedule ==
    /\ mainPc = "start"
    /\ gate' = ShouldOperate(scheduling, hour)
    /\ mainPc' = "dispatch"
    /\ UNCHANGED <<scheduling, hour, mode, ran, lastBreak, exitCode, connVars, typeVars, scrollVars, mouseVars, runVars, statsVars, searchVars, msgVars, loginVars>>

\* modes search and message: the phase runs, its failure exits with status 1
RunSingle ==
    /\ mainPc = "dispatch"
    /\ mode \in {"search", "message"}
    /\ ran' = Append(ran, mode)
    /\ \E failed \in BOOLEAN :
         /\ mainPc' = IF failed THEN "exited" ELSE "completed"
         /\ exitCode' = IF failed THEN 1 ELSE 0
    /\ UNCHANGED <<scheduling, hour, mode, gate, lastBreak, connVars, typeVars, scrollVars, mouseVars, runVars, statsVars, searchVars, msgVars, loginVars>>

\* mode connect: runConnect is a placeholder that returns nil
RunConnect ==
    /\ mainPc = "dispatch"
    /\ mode = "connect"
    /\ ran' = Append(ran, "connect")
    /\ mainPc' = "completed"
    /\ exitCode' = 0
    /\ UNCHANGED <<scheduling, hour, mode, gate, lastBreak, connVars, typeVars, scrollVars, mouseVars, runVars, statsVars, searchVars, msgVars, loginVars>>

\* an unknown mode
InvalidMode ==
    /\ mainPc = "dispatch"
    /\ mode \notin {"search", "connect", "message", "all"}
    /\ mainPc' = "exited"
    /\ exitCode' = 1
    /\ UNCHANGED <<scheduling, hour, mode, gate, ran, lastBreak, connVars, typeVars, scrollVars, mouseVars, runVars, statsVars, searchVars, msgVars, loginVars>>

\* mode all: runSearch, its failure is logged only
AllSearch ==
    /\ mainPc = "dispatch"
    /\ mode = "all"
    /\ ran' = Append(ran, "search")
    /\ mainPc' = "break1"
    /\ UNCHANGED <<scheduling, hour, mode, gate, lastBreak, exitCode, connVars, typeVars, scrollVars, mouseVars, runVars, statsVars, searchVars, msgVars, loginVars>>

\* mode all: RandomBreak between two phases
AllBreak ==
    /\ mainPc \in {"break1", "break2"}
    /\ \E f \in Float64, n \in BreakDraws :
         LET d == RandomBreak(scheduling, f, n)
         IN /\ lastBreak' = d
            /\ ran' = IF d > 0 THEN Append(ran, "break") ELSE ran
    /\ mainPc' = IF mainPc = "break1" THEN "connect" ELSE "message"
    /\ UNCHANGED <<scheduling, hour, mode, gate, exitCode, connVars, typeVars, scrollVars, mouseVars, runVars, statsVars, searchVars, msgVars, loginVars>>

\* mode all: runConnect
AllConnect ==
    /\ mainPc = "connect"
    /\ ran' = Append(ran, "connect")
    /\ mainPc' = "break2"
    /\ UNCHANGED <<scheduling, hour, mode, gate, lastBreak, exitCode, connVars, typeVars, scrollVars, mouseVars, runVars, statsVars, searchVars, msgVars, loginVars>>

\* mode all: runMessage, its failure is logged only
AllMessage ==
    /\ mainPc = "message"
    /\ ran' = Append(ran, "message")
    /\ mainPc' = "completed"
    /\ exitCode' = 0
    /\ UNCHANGED <<scheduling, hour, mode, gate, lastBreak, connVars, typeVars, scrollVars, mouseVars, runVars, statsVars, searchVars, msgVars, loginVars>>

\* runSearch or runMessage panics: a Must call of the page fails (the page
\* carries the Browser.Timeout deadline) and nothing recovers, so the process
\* dies with status 2
PhasePanic ==
    /\ \/ mainPc = "dispatch" /\ mode \in {"search", "message"}
          /\ ran' = Append(ran, mode)
       \/ mainPc = "dispatch" /\ mode = "all" /\ ran' = Append(ran, "search")
       \/ mainPc = "message" /\ ran' = Append(ran, "message")
    /\ mainPc' = "crashed"
    /\ exitCode' = 2
    /\ UNCHANGED <<scheduling, hour, mode, gate, lastBreak, connVars, typeVars, scrollVars, mouseVars, runVars, statsVars, searchVars, msgVars, loginVars>>

MainNext ==
    \/ CheckSchedule
    \/ RunSingle
    \/ RunConnect
    \/ InvalidMode
    \/ AllSearch
    \/ AllBreak
    \/ AllConnect
    \/ AllMessage
    \/ PhasePanic

----------------------------------------------------------------------------
(* HumanType (pkg/stealth) *)

\* the characters of the texts typed; "x" is also the substitute of a typo
Chars == {"a", "x"}

TypoChar == "x"
\* the string "\b" of el.MustInput("\b")
Backspace == "\\b"

RECURSIVE SeqsOf(_, _)
\* the sequences over S of length n
SeqsOf(S, n) ==
    IF n = 0 THEN {<<>>}
    ELSE {Append(t, c) : t \in SeqsOf(S, n - 1), c \in S}

Texts == UNION {SeqsOf(Chars, n) : n \in 0..MaxTextLen}

\* (MinKeystrokeDelay, MaxKeystrokeDelay) of the configurations explored
KeystrokeDelays == {<<1, 3>>, <<2, 2>>, <<3, 1>>}

\* a keystroke sent by el.MustInput: the string c, sent for character number at
\* of the text as the character itself, as the typo or as its backspace
Key(kind, c, at) == [k |-> kind, c |-> c, at |-> at]

\* the typo test with <= for <
TypoInjected_OrEqual(f, p) == f <= p

\* rng.Float64() < TypoProbability
TypoInjected(f, p) == f < p

\* the keystrokes of one character with the backspace left out
KeysFor_NoBackspace(c, at, typo) ==
    <<Key("char", c, at)>> \o
        (IF typo THEN <<Key("typo", TypoChar, at)>> ELSE <<>>)

\* the keystrokes of one character with the typo and its backspace sent first
KeysFor_TypoFirst(c, at, typo) ==
    (IF typo THEN <<Key("typo", TypoChar, at), Key("backspace", Backspace, at)>>
     ELSE <<>>) \o <<Key("char", c, at)>>

\* the keystrokes of one character of the text: the character, then on a typo
\* the wrong character and the backspace
KeysFor(c, at, typo) ==
    <<Key("char", c, at)>> \o
        (IF typo THEN <<Key("typo", TypoChar, at), Key("backspace", Backspace, at)>>
         ELSE <<>>)

\* HumanType has not been called
TypeIdle ==
    /\ typing = [Enabled |-> FALSE, MinKeystrokeDelay |-> 0, MaxKeystrokeDelay |-> 0,
                 TypoProbability |-> 0]
    /\ text = <<>>
    /\ typePc = "typing"
    /\ typeI = 1
    /\ keys = <<>>
    /\ lastDelay = 0

TypeInit ==
    /\ typing \in {[Enabled |-> e, MinKeystrokeDelay |-> d[1], MaxKeystrokeDelay |-> d[2],
                    TypoProbability |-> p] :
                      e \in BOOLEAN, d \in KeystrokeDelays, p \in Probabilities}
    /\ text \in Texts
    /\ typePc = "typing"
    /\ typeI = 1
    /\ keys = <<>>
    /\ lastDelay = 0

\* one character with Typing.Enabled false: the character only
TypePlain ==
    /\ typePc = "typing"
    /\ typeI <= Len(text)
    /\ ~typing.Enabled
    /\ keys' = keys \o KeysFor(text[typeI], typeI, FALSE)
    /\ typeI' = typeI + 1
    /\ UNCHANGED <<typing, text, typePc, lastDelay, connVars, mainVars, scrollVars, mouseVars, runVars, statsVars, searchVars, msgVars, loginVars>>

\* one character with Typing.Enabled: the character, the delay draw, the typo
TypeChar ==
    /\ typePc = "typing"
    /\ typeI <= Len(text)
    /\ typing.Enabled
    /\ typing.MaxKeystrokeDelay - typing.MinKeystrokeDelay > 0
    /\ \E d \in Intn(typing.MaxKeystrokeDelay - typing.MinKeystrokeDelay), f \in Float64 :
         /\ lastDelay' = d + typing.MinKeystrokeDelay
         /\ keys' = keys \o KeysFor(text[typeI], typeI,
                                    TypoInjected(f, typing.TypoProbability))
    /\ typeI' = typeI + 1
    /\ UNCHANGED <<typing, text, typePc, connVars, mainVars, scrollVars, mouseVars, runVars, statsVars, searchVars, msgVars, loginVars>>

\* one character with Typing.Enabled and max <= min: the character is sent,
\* then rng.Intn panics on its argument
TypePanic ==
    /\ typePc = "typing"
    /\ typeI <= Len(text)
    /\ typing.Enabled
    /\ typing.MaxKeystrokeDelay - typing.MinKeystrokeDelay <= 0
    /\ keys' = Append(keys, Key("char", text[typeI], typeI))
    /\ typePc' = "panicked"
    /\ UNCHANGED <<typing, text, typeI, lastDelay, connVars, mainVars, scrollVars, mouseVars, runVars, statsVars, searchVars, msgVars, loginVars>>

\* the loop is over: HumanType returns
TypeReturn ==
    /\ typePc = "typing"
    /\ typeI > Len(text)
    /\ typePc' = "done"
    /\ UNCHANGED <<typing, text, typeI, keys, lastDelay, connVars, mainVars, scrollVars, mouseVars, runVars, statsVars, searchVars, msgVars, loginVars>>

TypeNext ==
    \/ TypePlain
    \/ TypeChar
    \/ TypePanic
    \/ TypeReturn

RECURSIVE Replay(_)
\* the text an element holds after the keystrokes ks: a backspace removes the
\* character before it
Replay(ks) ==
    IF ks = <<>> THEN <<>>
    ELSE LET before == Replay(SubSeq(ks, 1, Len(ks) - 1))
             last == ks[Len(ks)].c
         IN IF last = Backspace
            THEN (IF before = <<>> THEN <<>> ELSE SubSeq(before, 1, Len(before) - 1))
            ELSE Append(before, last)

----------------------------------------------------------------------------
(* ScrollHumanLike (pkg/stealth) *)

StepsMin == 5      \* steps := rng.Intn(10) + 5
StepsSpan == 10
BackMin == 10      \* backDistance := rng.Intn(distance/4) + 10
BackDivisor == 4
VarianceDen == 10  \* ScrollSpeedVariance is held in tenths

\* the distances scrolled
Distances == {1, 3, 12, 40, 500, 1000}

\* Timing.ScrollSpeedVariance of the configurations explored, in tenths
Variances == {0, 6, 20}

\* the step with the variance not centred on 1: 1.0 + rng.Float64()*variance
ActualStep_Uncentred(d, n, f, v) ==
    Trunc(d * (VarianceDen * Grid + f * v), n * VarianceDen * Grid)

\* actualStep := int(stepSize * variance) with stepSize = distance/steps and
\* variance = 1.0 + (f/Grid - 0.5) * v/VarianceDen, computed exactly
ActualStep(d, n, f, v) ==
    Trunc(d * (2 * VarianceDen * Grid + (2 * f - Grid) * v), n * 2 * VarianceDen * Grid)

\* the scroll back drawn at probability 0 as well
ScrollBackDrawn_OrEqual(f, p) == f <= p

\* rng.Float64() < ScrollBackProbability
ScrollBackDrawn(f, p) == f < p

\* ScrollHumanLike has not been called
ScrollIdle ==
    /\ scrolling = [Enabled |-> FALSE, ScrollBackProbability |-> 0,
                    ScrollSpeedVariance |-> 0]
    /\ distance = 0
    /\ scrollPc = "start"
    /\ steps = 0
    /\ scrollI = 0
    /\ forward = 0
    /\ back = 0
    /\ negDeltas = 0
    /\ lastNegative = FALSE

ScrollInit ==
    /\ scrolling \in {[Enabled |-> e, ScrollBackProbability |-> p,
                       ScrollSpeedVariance |-> v] :
                         e \in BOOLEAN, p \in Probabilities, v \in Variances}
    /\ distance \in Distances
    /\ scrollPc = "start"
    /\ steps = 0
    /\ scrollI = 0
    /\ forward = 0
    /\ back = 0
    /\ negDeltas = 0
    /\ lastNegative = FALSE

\* Scrolling.Enabled false: one scrollBy(0, distance)
ScrollDirect ==
    /\ scrollPc = "start"
    /\ ~scrolling.Enabled
    /\ forward' = distance
    /\ negDeltas' = negDeltas + (IF distance < 0 THEN 1 ELSE 0)
    /\ lastNegative' = (distance < 0)
    /\ scrollPc' = "done"
    /\ UNCHANGED <<scrolling, distance, steps, scrollI, back, connVars, mainVars, typeVars, mouseVars, runVars, statsVars, searchVars, msgVars, loginVars>>

\* the step count is drawn
ScrollStart ==
    /\ scrollPc = "start"
    /\ scrolling.Enabled
    /\ \E n \in Intn(StepsSpan) : steps' = n + StepsMin
    /\ scrollI' = 0
    /\ scrollPc' = "loop"
    /\ UNCHANGED <<scrolling, distance, forward, back, negDeltas, lastNegative,
                   connVars, mainVars, typeVars, mouseVars, runVars, statsVars, searchVars, msgVars, loginVars>>

\* one step of the loop: the variance is drawn, scrollBy(0, actualStep), a sleep
ScrollStep ==
    /\ scrollPc = "loop"
    /\ scrollI < steps
    /\ \E f \in Float64 :
         LET actualStep == ActualStep(distance, steps, f, scrolling.ScrollSpeedVariance)
         IN /\ forward' = forward + actualStep
            /\ negDeltas' = negDeltas + (IF actualStep < 0 THEN 1 ELSE 0)
            /\ lastNegative' = (actualStep < 0)
    /\ scrollI' = scrollI + 1
    /\ UNCHANGED <<scrolling, distance, scrollPc, steps, back, connVars, mainVars, typeVars, mouseVars, runVars, statsVars, searchVars, msgVars, loginVars>>

\* after the loop, no scroll back is drawn
ScrollNoBack ==
    /\ scrollPc = "loop"
    /\ scrollI >= steps
    /\ \E f \in Float64 : ~ScrollBackDrawn(f, scrolling.ScrollBackProbability)
    /\ scrollPc' = "done"
    /\ UNCHANGED <<scrolling, distance, steps, scrollI, forward, back, negDeltas,
                   lastNegative, connVars, mainVars, typeVars, mouseVars, runVars, statsVars, searchVars, msgVars, loginVars>>

\* after the loop, the scroll back: scrollBy(0, -backDistance), a longer sleep
ScrollBack ==
    /\ scrollPc = "loop"
    /\ scrollI >= steps
    /\ \E f \in Float64 : ScrollBackDrawn(f, scrolling.ScrollBackProbability)
    /\ Trunc(distance, BackDivisor) > 0
    /\ \E n \in IntnEnds(Trunc(distance, BackDivisor)) : back' = -(n + BackMin)
    /\ negDeltas' = negDeltas + 1
    /\ lastNegative' = TRUE
    /\ scrollPc' = "done"
    /\ UNCHANGED <<scrolling, distance, steps, scrollI, forward, connVars, mainVars, typeVars, mouseVars, runVars, statsVars, searchVars, msgVars, loginVars>>

\* after the loop, the scroll back is drawn with distance/4 = 0: rng.Intn
\* panics on its argument
ScrollBackPanic ==
    /\ scrollPc = "loop"
    /\ scrollI >= steps
    /\ \E f \in Float64 : ScrollBackDrawn(f, scrolling.ScrollBackProbability)
    /\ Trunc(distance, BackDivisor) <= 0
    /\ scrollPc' = "panicked"
    /\ UNCHANGED <<scrolling, distance, steps, scrollI, forward, back, negDeltas,
                   lastNegative, connVars, mainVars, typeVars, mouseVars, runVars, statsVars, searchVars, msgVars, loginVars>>

ScrollNext ==
    \/ ScrollDirect
    \/ ScrollStart
    \/ ScrollStep
    \/ ScrollNoBack
    \/ ScrollBack
    \/ ScrollBackPanic

----------------------------------------------------------------------------
(* moveMouseToElement (pkg/stealth), followed on one coordinate axis: the x *)
(* and the y of a point are computed by the same code from separate draws.  *)
(* Coordinates are held in units of 1/Unit pixel, where every jitter of the  *)
(* grid draws is a whole number.                                             *)

MouseStepsMin == 25    \* steps := rng.Intn(15) + 25
MouseStepsSpan == 15
TargetJitter == 20     \* (rng.Float64()-0.5)*20 around the centre of the box
ControlJitterX == 30   \* (rng.Float64()-0.5)*30 on cp1X, cp2X
ControlJitterY == 20   \* (rng.Float64()-0.5)*20 on cp1Y, cp2Y
MicroJitter == 2       \* (rng.Float64()-0.5)*2 of a micro-correction
SleepBaseMin == 4      \* base := 4 + rng.Intn(6), in ms
SleepBaseSpan == 6

\* units per pixel
Unit == 10 * Grid

\* the draws of rng.Float64() at the two ends of the grid
FloatEnds == {0, Grid - 1}

\* the draws of rng.Intn(6) that give the shortest and the longest sleep
SleepBaseDraws == {0, SleepBaseSpan - 1}

\* the axis, the viewport centre and the centre of the element's box on it, in
\* pixels
Geometries == {<<"x", 100, 200>>, <<"y", 100, 103>>}

\* (f/Grid - 0.5) * c pixels, in units
Jitter(f, c) == (2 * f - Grid) * c * 5

\* current + (target-current)*num/10 + jitter: a control point
ControlPoint(from, to, num, j) == from + Trunc((to - from) * num, 10) + j

\* bezierCurve(t, p0, p1, p2, p3) at t = i/n. The weights of p0..p3 add up to
\* 1, so the point is p0 plus the weighted differences; it is p0 at i = 0 and
\* p3 at i = n, as in the floating-point evaluation.
bezierCurve(i, n, p0, p1, p2, p3) ==
    p0 + Trunc(3 * (n - i) * (n - i) * i * (p1 - p0)
               + 3 * (n - i) * i * i * (p2 - p0)
               + i * i * i * (p3 - p0), n * n * n)

\* rng.Float64() < 0.1
MicroCorrected(f) == 10 * f < Grid

\* the sleep without the constant part of the easing factor
MoveSleep_EaseOnly(base, i, n) ==
    Trunc(base * 100 * (8 * i * i * (3 * n - 2 * i)), n * n * n)

\* sleep := base * (0.5 + ease*0.8) ms with ease = t*t*(3-2t), t = i/n, in
\* microseconds
MoveSleep(base, i, n) ==
    Trunc(base * 100 * (5 * n * n * n + 8 * i * i * (3 * n - 2 * i)), n * n * n)

\* the point p lies beyond the target, seen from the start
PastTarget(p) == (p - target) * (target - current) > 0

\* moveMouseToElement has not been called
MouseIdle ==
    /\ mouse = [MicroCorrections |-> FALSE, OvershootProbability |-> 0]
    /\ axis = "x"
    /\ box = 0
    /\ current = 0
    /\ target = 0
    /\ cp1 = 0
    /\ cp2 = 0
    /\ mouseSteps = 0
    /\ mouseI = 0
    /\ firstPoint = 0
    /\ lastPoint = 0
    /\ sleepsPositive = TRUE
    /\ wentPast = FALSE
    /\ mousePc = "start"

MouseInit ==
    /\ mouse \in {[MicroCorrections |-> m, OvershootProbability |-> p] :
                    m \in BOOLEAN, p \in {0, Grid}}
    /\ \E g \in Geometries : axis = g[1] /\ current = g[2] * Unit /\ box = g[3]
    /\ target = 0
    /\ cp1 = 0
    /\ cp2 = 0
    /\ mouseSteps = 0
    /\ mouseI = 0
    /\ firstPoint = 0
    /\ lastPoint = 0
    /\ sleepsPositive = TRUE
    /\ wentPast = FALSE
    /\ mousePc = "start"

\* the target, the control points and the step count are drawn
MouseStart ==
    /\ mousePc = "start"
    /\ \E ft \in FloatEnds, f1 \in FloatEnds, f2 \in FloatEnds, n \in IntnEnds(MouseStepsSpan) :
         LET t == box * Unit + Jitter(ft, TargetJitter)
             c == IF axis = "x" THEN ControlJitterX ELSE ControlJitterY
         IN /\ target' = t
            /\ cp1' = ControlPoint(current, t, 3, Jitter(f1, c))
            /\ cp2' = ControlPoint(current, t, 6, Jitter(f2, c))
            /\ mouseSteps' = n + MouseStepsMin
    /\ mouseI' = 0
    /\ mousePc' = "loop"
    /\ UNCHANGED <<mouse, axis, box, current, firstPoint, lastPoint, sleepsPositive,
                   wentPast, connVars, mainVars, typeVars, scrollVars, runVars, statsVars, searchVars, msgVars, loginVars>>

\* Mouse.Move(p) and the sleep drawn with base b
MouseMove(p, b) ==
    /\ firstPoint' = IF mouseI = 0 THEN p ELSE firstPoint
    /\ lastPoint' = p
    /\ wentPast' = (wentPast \/ PastTarget(p))
    /\ sleepsPositive' =
         (sleepsPositive /\ MoveSleep(b + SleepBaseMin, mouseI, mouseSteps) > 0)
    /\ mouseI' = mouseI + 1
    /\ UNCHANGED <<mouse, axis, box, current, target, cp1, cp2, mouseSteps, mousePc,
                   connVars, mainVars, typeVars, scrollVars, runVars, statsVars, searchVars, msgVars, loginVars>>

\* one iteration without a micro-correction: the point of the curve,
\* Mouse.Move and the sleep
MouseStep ==
    /\ mousePc = "loop"
    /\ mouseI <= mouseSteps
    /\ ~mouse.MicroCorrections \/ \E fd \in Float64 : ~MicroCorrected(fd)
    /\ \E b \in SleepBaseDraws :
         MouseMove(bezierCurve(mouseI, mouseSteps, current, cp1, cp2, target), b)

\* one iteration with a micro-correction: the point of the curve is moved by
\* the jitter before Mouse.Move
MouseStepCorrected ==
    /\ mousePc = "loop"
    /\ mouseI <= mouseSteps
    /\ mouse.MicroCorrections
    /\ \E fd \in Float64 : MicroCorrected(fd)
    /\ \E fj \in Float64, b \in SleepBaseDraws :
         MouseMove(bezierCurve(mouseI, mouseSteps, current, cp1, cp2, target)
                   + Jitter(fj, MicroJitter), b)

\* the loop is over: moveMouseToElement returns
MouseReturn ==
    /\ mousePc = "loop"
    /\ mouseI > mouseSteps
    /\ mousePc' = "done"
    /\ UNCHANGED <<mouse, axis, box, current, target, cp1, cp2, mouseSteps, mouseI,
                   firstPoint, lastPoint, sleepsPositive, wentPast,
                   connVars, mainVars, typeVars, scrollVars, runVars, statsVars, searchVars, msgVars, loginVars>>

MouseNext ==
    \/ MouseStart
    \/ MouseStep
    \/ MouseStepCorrected
    \/ MouseReturn

----------------------------------------------------------------------------
(* A Stealth instance (pkg/stealth) in a run of the program: NewStealth,     *)
(* Apply, then RandomDelay and HumanClick as sendConnectionRequest calls     *)
(* them. Two runs are given the same random source: stream is the sequence   *)
(* rand.NewSource yields for one seed, and every draw of s.rng is read from  *)
(* it; the draws moveMouseToElement reads in between are followed in the     *)
(* model of moveMouseToElement and are not part of stream.                   *)

Runs == {"r1", "r2"}

\* the draws a run can make from its source
StreamPositions == {1, 2, 3}

\* rng.Intn(n) computed from the draw r of the source
IntnOf(r, n) == (r * n) \div Grid

\* Timing.MinThinkTime, MaxThinkTime: a proper, a degenerate and an inverted range
ThinkTimes == {<<1, 3>>, <<2, 2>>, <<3, 1>>}

\* Hovering.HoverDurationMin, HoverDurationMax
HoverDurations == {<<1, 3>>, <<2, 2>>, <<3, 1>>}

\* Browser.Viewport Width, Height
BrowserViewport == <<1280, 720>>

\* the draws of the two rand.Intn(100) of applyFingerprintMasking, taken from
\* the global source of math/rand
ViewportDraws == {<<0, 0>>, <<99, 99>>}

\* a run before NewStealth
NewRun ==
    [pc |-> "new", pos |-> 1, viewport |-> BrowserViewport, delay |-> 0,
     hovered |-> FALSE, hover |-> 0, slept |-> 0, events |-> <<>>]

\* max - min after "if max <= min { max = min + 1 }"
ThinkRange(min, max) == IF max <= min THEN (min + 1) - min ELSE max - min

\* no run has started
RunIdle ==
    /\ timing = [Enabled |-> FALSE, MinThinkTime |-> 0, MaxThinkTime |-> 0]
    /\ hovering = [Enabled |-> FALSE, HoverProbability |-> 0,
                   HoverDurationMin |-> 0, HoverDurationMax |-> 0]
    /\ fingerprint = [Enabled |-> FALSE, RandomizeViewport |-> FALSE]
    /\ movement = FALSE
    /\ stream = [q \in StreamPositions |-> 0]
    /\ run = [r \in Runs |-> NewRun]

RunInit ==
    /\ timing \in {[Enabled |-> e, MinThinkTime |-> t[1], MaxThinkTime |-> t[2]] :
                     e \in BOOLEAN, t \in ThinkTimes}
    /\ hovering \in {[Enabled |-> e, HoverProbability |-> p,
                      HoverDurationMin |-> d[1], HoverDurationMax |-> d[2]] :
                        e \in BOOLEAN, p \in {0, Grid}, d \in HoverDurations}
    /\ fingerprint \in {[Enabled |-> e, RandomizeViewport |-> v] :
                          e \in BOOLEAN, v \in BOOLEAN}
    /\ movement \in BOOLEAN
    /\ stream \in [StreamPositions -> Float64]
    /\ run = [r \in Runs |-> NewRun]

\* the second run starts when the first is over
Started(r) == r = "r1" \/ run["r1"].pc \in {"done", "panicked"}

\* NewStealth and Apply: applyFingerprintMasking randomizes the viewport with
\* the package-level rand.Intn
Apply(r) ==
    /\ Started(r)
    /\ run[r].pc = "new"
    /\ \E d \in ViewportDraws :
         run' = [run EXCEPT ![r] =
            [@ EXCEPT !.pc = "applied",
                      !.viewport =
                         IF fingerprint.Enabled /\ fingerprint.RandomizeViewport
                         THEN <<BrowserViewport[1] + d[1] - 50, BrowserViewport[2] + d[2] - 50>>
                         ELSE @]]
    /\ UNCHANGED <<timing, hovering, fingerprint, movement, stream,
                   connVars, mainVars, typeVars, scrollVars, mouseVars, statsVars, searchVars, msgVars, loginVars>>

\* RandomDelay: nothing with Timing.Enabled false, else the think time is drawn
\* from the normalised range and slept
RandomDelay(r) ==
    /\ run[r].pc = "applied"
    /\ run' = [run EXCEPT ![r] =
         IF ~timing.Enabled THEN [@ EXCEPT !.pc = "delayed"]
         ELSE LET min == timing.MinThinkTime
                  n == ThinkRange(min, timing.MaxThinkTime)
                  delay == IntnOf(stream[@.pos], n) + min
              IN [@ EXCEPT !.pc = "delayed", !.pos = @ + 1, !.delay = delay,
                           !.slept = @ + delay]]
    /\ UNCHANGED <<timing, hovering, fingerprint, movement, stream,
                   connVars, mainVars, typeVars, scrollVars, mouseVars, statsVars, searchVars, msgVars, loginVars>>

\* HumanClick draws the hover: Hovering.Enabled && rng.Float64() < HoverProbability
HoverDrawn(r) == hovering.Enabled /\ stream[run[r].pos] < hovering.HoverProbability

\* the pointer move of HumanClick: moveMouseToElement with MouseMovement.Enabled
Moved == IF movement THEN <<"move">> ELSE <<>>

\* HumanClick without a hover: the move and the click
HumanClick(r) ==
    /\ run[r].pc = "delayed"
    /\ ~HoverDrawn(r)
    /\ run' = [run EXCEPT ![r] =
         [@ EXCEPT !.pc = "done", !.pos = IF hovering.Enabled THEN @ + 1 ELSE @,
                   !.events = @ \o Moved \o <<"click">>]]
    /\ UNCHANGED <<timing, hovering, fingerprint, movement, stream,
                   connVars, mainVars, typeVars, scrollVars, mouseVars, statsVars, searchVars, msgVars, loginVars>>

\* HumanClick with a hover: hoverOverElement draws the duration and sleeps it,
\* then the click
HumanClickHover(r) ==
    /\ run[r].pc = "delayed"
    /\ HoverDrawn(r)
    /\ hovering.HoverDurationMax - hovering.HoverDurationMin > 0
    /\ run' = [run EXCEPT ![r] =
         LET duration == IntnOf(stream[@.pos + 1],
                                hovering.HoverDurationMax - hovering.HoverDurationMin)
                         + hovering.HoverDurationMin
         IN [@ EXCEPT !.pc = "done", !.pos = @ + 2, !.hovered = TRUE,
                      !.hover = duration, !.slept = @ + duration,
                      !.events = @ \o Moved \o <<"hover", "click">>]]
    /\ UNCHANGED <<timing, hovering, fingerprint, movement, stream,
                   connVars, mainVars, typeVars, scrollVars, mouseVars, statsVars, searchVars, msgVars, loginVars>>

\* HumanClick with a hover and HoverDurationMax <= HoverDurationMin: rng.Intn
\* panics on its argument
HumanClickPanic(r) ==
    /\ run[r].pc = "delayed"
    /\ HoverDrawn(r)
    /\ hovering.HoverDurationMax - hovering.HoverDurationMin <= 0
    /\ run' = [run EXCEPT ![r] =
         [@ EXCEPT !.pc = "panicked", !.pos = @ + 1, !.events = @ \o Moved]]
    /\ UNCHANGED <<timing, hovering, fingerprint, movement, stream,
                   connVars, mainVars, typeVars, scrollVars, mouseVars, statsVars, searchVars, msgVars, loginVars>>

RunNext ==
    \E r \in Runs :
        \/ Apply(r)
        \/ RandomDelay(r)
        \/ HumanClick(r)
        \/ HumanClickHover(r)
        \/ HumanClickPanic(r)

----------------------------------------------------------------------------
(* Table daily_stats (pkg/database) *)

\* date.Format("2006-01-02") of the time t: the key of a row
DateKey(t) == Date(t)

\* the counts GetDailyStats returns when the date has no row
ZeroStats == [connections_sent |-> 0, messages_sent |-> 0]

\* the upsert with the row replaced on conflict instead of updated
Upsert_Replace(stats, d, column) ==
    [k \in DOMAIN stats \cup {d} |->
        IF k # d THEN stats[k] ELSE [ZeroStats EXCEPT ![column] = 1]]

\* INSERT INTO daily_stats VALUES (d, ..) ON CONFLICT(date) DO UPDATE SET
\* column = column + 1: the row of d is created with 1 in column, or column
\* is raised by 1
Upsert(stats, d, column) ==
    [k \in DOMAIN stats \cup {d} |->
        IF k # d THEN stats[k]
        ELSE IF d \in DOMAIN stats THEN [stats[d] EXCEPT ![column] = @ + 1]
             ELSE [ZeroStats EXCEPT ![column] = 1]]

\* no call was made on daily_stats
StatsIdle ==
    /\ daily_stats = <<>>
    /\ statsCall = [op |-> "none", t |-> 0, err |-> FALSE]
    /\ statsResult = ZeroStats
    /\ statsCalls = 0

\* IncrementDailyConnections(date) at time t; the Exec can fail
IncrementDailyConnections ==
    /\ statsCalls < MaxStatsCalls
    /\ \E t \in 0..MaxTime, err \in BOOLEAN :
         /\ statsCall' = [op |-> "IncrementDailyConnections", t |-> t, err |-> err]
         /\ daily_stats' = IF err THEN daily_stats
                           ELSE Upsert(daily_stats, DateKey(t), "connections_sent")
    /\ statsCalls' = statsCalls + 1
    /\ UNCHANGED <<statsResult, connVars, mainVars, typeVars, scrollVars, mouseVars, runVars, searchVars, msgVars, loginVars>>

\* IncrementDailyMessages(date) at time t; the Exec can fail
IncrementDailyMessages ==
    /\ statsCalls < MaxStatsCalls
    /\ \E t \in 0..MaxTime, err \in BOOLEAN :
         /\ statsCall' = [op |-> "IncrementDailyMessages", t |-> t, err |-> err]
         /\ daily_stats' = IF err THEN daily_stats
                           ELSE Upsert(daily_stats, DateKey(t), "messages_sent")
    /\ statsCalls' = statsCalls + 1
    /\ UNCHANGED <<statsResult, connVars, mainVars, typeVars, scrollVars, mouseVars, runVars, searchVars, msgVars, loginVars>>

\* GetDailyStats(date) at time t: the row of the date, zero counts on
\* sql.ErrNoRows, nothing on another error
GetDailyStats ==
    /\ statsCalls < MaxStatsCalls
    /\ \E t \in 0..MaxTime, err \in BOOLEAN :
         /\ statsCall' = [op |-> "GetDailyStats", t |-> t, err |-> err]
         /\ statsResult' = IF err THEN statsResult
                           ELSE IF DateKey(t) \in DOMAIN daily_stats
                                THEN daily_stats[DateKey(t)] ELSE ZeroStats
    /\ statsCalls' = statsCalls + 1
    /\ UNCHANGED <<daily_stats, connVars, mainVars, typeVars, scrollVars, mouseVars, runVars, searchVars, msgVars, loginVars>>

StatsNext ==
    \/ IncrementDailyConnections
    \/ IncrementDailyMessages
    \/ GetDailyStats

----------------------------------------------------------------------------
(* SearchProfiles (pkg/search) *)

\* the profile URLs the result pages can show
Urls == {"u1", "u2"}

\* the lists of at most n URLs
UrlLists(n) == UNION {[1..k -> Urls] : k \in 0..n}

\* SELECT COUNT(*) FROM profiles WHERE url = ?: err == nil && count > 0
profileExists(rows, url, queryOk) == queryOk /\ url \in rows

\* INSERT INTO profiles (url, ...) ... ON CONFLICT(url) DO NOTHING
saveProfile(rows, url) == rows \cup {url}

\* no search was started
SearchIdle ==
    /\ searchPc = "idle"
    /\ profileRows = {}
    /\ storedBefore = {}
    /\ maxResults = 0
    /\ found = <<>>
    /\ pageProfiles = <<>>
    /\ cardI = 1
    /\ pageNum = 1

\* a search is about to start on a table holding any of the URLs
SearchInit ==
    /\ searchPc = "start"
    /\ profileRows \in SUBSET Urls
    /\ storedBefore = profileRows
    /\ maxResults \in 0..MaxResultsBound
    /\ found = <<>>
    /\ pageProfiles = <<>>
    /\ cardI = 1
    /\ pageNum = 1

\* page.Navigate(searchURL): its error is returned; then the first page
SearchNavigate ==
    /\ searchPc = "start"
    /\ \E navigated \in BOOLEAN :
         searchPc' = IF navigated THEN "page" ELSE "failed"
    /\ UNCHANGED <<profileRows, storedBefore, maxResults, found, pageProfiles, cardI, pageNum, connVars, mainVars, typeVars, scrollVars, mouseVars, runVars, statsVars, msgVars, loginVars>>

\* the head of the outer loop: len(profiles) < MaxResults, then
\* extractProfilesFromPage (its error is always nil)
ExtractPage ==
    /\ searchPc = "page"
    /\ IF Len(found) >= maxResults
       THEN /\ searchPc' = "done"
            /\ UNCHANGED <<pageProfiles, cardI>>
       ELSE /\ \E cards \in UrlLists(MaxCards) : pageProfiles' = cards
            /\ cardI' = 1
            /\ searchPc' = "cards"
    /\ UNCHANGED <<profileRows, storedBefore, maxResults, found, pageNum, connVars, mainVars, typeVars, scrollVars, mouseVars, runVars, statsVars, msgVars, loginVars>>

\* one iteration of the inner loop: profileExists, append, saveProfile (its
\* error is only logged)
ProcessCard ==
    /\ searchPc = "cards"
    /\ cardI <= Len(pageProfiles)
    /\ Len(found) < maxResults
    /\ \E queryOk, saved \in BOOLEAN :
         LET url == pageProfiles[cardI]
         IN IF profileExists(profileRows, url, queryOk)
            THEN UNCHANGED <<found, profileRows>>
            ELSE /\ found' = Append(found, url)
                 /\ profileRows' = IF saved THEN saveProfile(profileRows, url)
                                   ELSE profileRows
    /\ cardI' = cardI + 1
    /\ UNCHANGED <<searchPc, storedBefore, maxResults, pageProfiles, pageNum, connVars, mainVars, typeVars, scrollVars, mouseVars, runVars, statsVars, msgVars, loginVars>>

\* the inner loop is left (no card left, or the cap reached): hasNextPage,
\* goToNextPage and the pagination sleep, or the end of the search
CardsDone ==
    /\ searchPc = "cards"
    /\ \/ cardI > Len(pageProfiles)
       \/ Len(found) >= maxResults
    /\ \E hasNextPage \in BOOLEAN :
         IF hasNextPage /\ pageNum < MaxPages
         THEN /\ pageNum' = pageNum + 1
              /\ searchPc' = "page"
         ELSE /\ searchPc' = "done"
              /\ UNCHANGED pageNum
    /\ UNCHANGED <<profileRows, storedBefore, maxResults, found, pageProfiles, cardI, connVars, mainVars, typeVars, scrollVars, mouseVars, runVars, statsVars, msgVars, loginVars>>

\* a Must call of the search (MustWaitLoad, MustElements, MustElement) panics
SearchPanic ==
    /\ searchPc \in {"page", "cards"}
    /\ searchPc' = "panicked"
    /\ UNCHANGED <<profileRows, storedBefore, maxResults, found, pageProfiles, cardI, pageNum, connVars, mainVars, typeVars, scrollVars, mouseVars, runVars, statsVars, msgVars, loginVars>>

SearchNext ==
    \/ SearchNavigate
    \/ ExtractPage
    \/ ProcessCard
    \/ CardsDone
    \/ SearchPanic

----------------------------------------------------------------------------
(* Messaging (pkg/messaging) and table messages *)

\* SELECT COUNT(*) FROM messages WHERE profile_url = ?: (false, err) when the
\* query fails, count > 0 otherwise
HasMessage(rows, profileURL, queryOk) == queryOk /\ profileURL \in rows

\* INSERT INTO messages (profile_id, profile_url, content): the URLs with a row
AddMessage(rows, profileURL) == rows \cup {profileURL}

\* no message was sent
MsgIdle ==
    /\ messages = {}
    /\ delivered = [u \in Urls |-> 0]
    /\ msgPc = "idle"
    /\ msgList = <<>>
    /\ msgI = 1
    /\ msgCalls = 0

\* SendMessage(profileURL, message): the lookup (its error only logged), the
\* steps in the browser up to the click on the send button (an error of one
\* of them is returned before anything is sent), then AddMessage and
\* IncrementDailyMessages, the errors of both only logged
SendMessage(profileURL) ==
    \E queryOk, reached, added, counted \in BOOLEAN :
        IF HasMessage(messages, profileURL, queryOk) \/ ~reached
        THEN UNCHANGED <<messages, delivered, daily_stats>>
        ELSE /\ delivered' = [delivered EXCEPT ![profileURL] = @ + 1]
             /\ messages' = IF added THEN AddMessage(messages, profileURL)
                            ELSE messages
             /\ daily_stats' = IF counted
                               THEN Upsert(daily_stats, DateKey(now), "messages_sent")
                               ELSE daily_stats

\* a direct call of SendMessage
SendMessageCall ==
    /\ msgPc = "idle"
    /\ msgCalls < MaxMsgCalls
    /\ \E profileURL \in Urls : SendMessage(profileURL)
    /\ msgCalls' = msgCalls + 1
    /\ UNCHANGED <<msgPc, msgList, msgI, statsCall, statsResult, statsCalls, connVars, mainVars, typeVars, scrollVars, mouseVars, runVars, searchVars, loginVars>>

\* SendBulkMessages(profiles, template) is called
SendBulkMessages ==
    /\ msgPc = "idle"
    /\ msgCalls < MaxMsgCalls
    /\ \E profiles \in UrlLists(MaxListLen) : msgList' = profiles
    /\ msgI' = 1
    /\ msgPc' = "bulk"
    /\ msgCalls' = msgCalls + 1
    /\ UNCHANGED <<messages, delivered, statsVars, connVars, mainVars, typeVars, scrollVars, mouseVars, runVars, searchVars, loginVars>>

\* one iteration of SendBulkMessages: SendMessage, its error logged
BulkStep ==
    /\ msgPc = "bulk"
    /\ msgI <= Len(msgList)
    /\ SendMessage(msgList[msgI])
    /\ msgI' = msgI + 1
    /\ UNCHANGED <<msgPc, msgList, msgCalls, statsCall, statsResult, statsCalls, connVars, mainVars, typeVars, scrollVars, mouseVars, runVars, searchVars, loginVars>>

\* SendFollowUpMessages is called: nil when messaging is disabled, the error
\* of GetPendingConnections, or the loop over the pending connections
SendFollowUpMessages ==
    /\ msgPc = "idle"
    /\ msgCalls < MaxMsgCalls
    /\ \E enabled, queried \in BOOLEAN, pendingConnections \in UrlLists(MaxListLen) :
         IF enabled /\ queried
         THEN /\ msgList' = pendingConnections
              /\ msgPc' = "followup"
         ELSE /\ msgList' = <<>>
              /\ msgPc' = "idle"
    /\ msgI' = 1
    /\ msgCalls' = msgCalls + 1
    /\ UNCHANGED <<messages, delivered, statsVars, connVars, mainVars, typeVars, scrollVars, mouseVars, runVars, searchVars, loginVars>>

\* one iteration of SendFollowUpMessages: the connection is skipped when the
\* follow-up delay has not passed, the navigation fails or the profile shows
\* no Message button; otherwise SendMessage (UpdateConnectionRequestStatus
\* then changes rows of connection_requests by profile_url; none here)
FollowUpStep ==
    /\ msgPc = "followup"
    /\ msgI <= Len(msgList)
    /\ \E due, navigated, accepted \in BOOLEAN :
         IF due /\ navigated /\ accepted
         THEN SendMessage(msgList[msgI])
         ELSE UNCHANGED <<messages, delivered, daily_stats>>
    /\ msgI' = msgI + 1
    /\ UNCHANGED <<msgPc, msgList, msgCalls, statsCall, statsResult, statsCalls, connVars, mainVars, typeVars, scrollVars, mouseVars, runVars, searchVars, loginVars>>

\* the loop of SendBulkMessages or SendFollowUpMessages ends: return nil
MsgLoopDone ==
    /\ msgPc \in {"bulk", "followup"}
    /\ msgI > Len(msgList)
    /\ msgPc' = "idle"
    /\ msgList' = <<>>
    /\ msgI' = 1
    /\ UNCHANGED <<messages, delivered, msgCalls, statsVars, connVars, mainVars, typeVars, scrollVars, mouseVars, runVars, searchVars, loginVars>>

MsgNext ==
    \/ SendMessageCall
    \/ SendBulkMessages
    \/ BulkStep
    \/ SendFollowUpMessages
    \/ FollowUpStep
    \/ MsgLoopDone

----------------------------------------------------------------------------
(* Auth.Login (pkg/auth); durations in units of 500 ms *)

CheckpointWait == 600   \* 5 * time.Minute
CheckpointSleep == 6    \* 3 * time.Second
LoginWait == 40         \* 20 * time.Second
LoginSleep == 1         \* 500 * time.Millisecond

\* config Browser.Timeout: unset, 30 s, 11 min
BrowserTimeouts == {0, 60, 1320}

\* the time a page load or the typing of the form takes: none, 5 s
OperationTimes == {0, 10}

\* the deadline of the page (page.Timeout at its creation) has passed: every
\* later Must call on the page panics
Expired(t) == t >= browserTimeout

\* Login has ended: returned nil, returned an error, or died in a panic
LoginEnded == loginPc \in {"success", "error", "panicked"}

\* Login was not called
LoginIdle ==
    /\ loginPc = "idle"
    /\ loggedIn = FALSE
    /\ loginClock = 0
    /\ browserTimeout = 0
    /\ waitUntil = 0
    /\ checkpoint = FALSE
    /\ typed = FALSE
    /\ lastCheck = "none"
    /\ observed = FALSE
    /\ sessionExisted = FALSE

\* Login is called, with or without a session in the browser profile
LoginInit ==
    /\ loginPc = "start"
    /\ loggedIn \in BOOLEAN
    /\ loginClock = 0
    /\ browserTimeout \in BrowserTimeouts
    /\ waitUntil = 0
    /\ checkpoint = FALSE
    /\ typed = FALSE
    /\ lastCheck = "none"
    /\ observed = FALSE
    /\ sessionExisted = FALSE

\* launch, connect, the page with its deadline, stealth, Navigate (the errors
\* of Launch, Apply and Navigate are returned) and MustWaitLoad
LoginOpen ==
    /\ loginPc = "start"
    /\ \E ok \in BOOLEAN, d \in OperationTimes :
         /\ loginClock' = IF ok THEN d ELSE 0
         /\ loginPc' = IF ~ok THEN "error"
                       ELSE IF Expired(d) THEN "panicked" ELSE "opened"
    /\ UNCHANGED <<loggedIn, browserTimeout, waitUntil, checkpoint, typed, lastCheck, observed, sessionExisted, connVars, mainVars, typeVars, scrollVars, mouseVars, runVars, statsVars, searchVars, msgVars>>

\* the check for an existing session
CheckSession ==
    /\ loginPc = "opened"
    /\ lastCheck' = IF loggedIn THEN "true" ELSE "false"
    /\ sessionExisted' = loggedIn
    /\ loginPc' = IF loggedIn THEN "success" ELSE "form"
    /\ UNCHANGED <<loggedIn, loginClock, browserTimeout, waitUntil, checkpoint, typed, observed, connVars, mainVars, typeVars, scrollVars, mouseVars, runVars, statsVars, searchVars, msgVars>>

\* fillLoginForm: MustElement waits for the form until the page's deadline and
\* panics; otherwise the credentials are typed and the form is submitted
FillLoginForm ==
    /\ loginPc = "form"
    /\ \E present \in BOOLEAN, d \in OperationTimes :
         IF present /\ ~Expired(loginClock + d)
         THEN /\ typed' = TRUE
              /\ loginClock' = loginClock + d
              /\ loginPc' = "submitted"
         ELSE /\ typed' = present
              /\ loginClock' = browserTimeout
              /\ loginPc' = "panicked"
    /\ UNCHANGED <<loggedIn, browserTimeout, waitUntil, checkpoint, lastCheck, observed, sessionExisted, connVars, mainVars, typeVars, scrollVars, mouseVars, runVars, statsVars, searchVars, msgVars>>

\* hasSecurityCheckpoint, and the deadline of the polling loop it selects
HasSecurityCheckpoint ==
    /\ loginPc = "submitted"
    /\ \E cp \in BOOLEAN :
         /\ checkpoint' = cp
         /\ waitUntil' = loginClock + (IF cp THEN CheckpointWait ELSE LoginWait)
    /\ loginPc' = "poll"
    /\ UNCHANGED <<loggedIn, loginClock, browserTimeout, typed, lastCheck, observed, sessionExisted, connVars, mainVars, typeVars, scrollVars, mouseVars, runVars, statsVars, searchVars, msgVars>>

\* one iteration of the checkpoint loop: sleep 3 s, then isLoggedIn
PollCheckpoint ==
    /\ loginPc = "poll"
    /\ checkpoint
    /\ loginClock < waitUntil
    /\ loginClock' = loginClock + CheckpointSleep
    /\ IF Expired(loginClock')
       THEN /\ loginPc' = "panicked"
            /\ UNCHANGED <<lastCheck, observed>>
       ELSE /\ lastCheck' = IF loggedIn THEN "true" ELSE "false"
            /\ observed' = (observed \/ loggedIn)
            /\ loginPc' = IF loggedIn THEN "final" ELSE "poll"
    /\ UNCHANGED <<loggedIn, browserTimeout, waitUntil, checkpoint, typed, sessionExisted, connVars, mainVars, typeVars, scrollVars, mouseVars, runVars, statsVars, searchVars, msgVars>>

\* one iteration of the loop without a checkpoint: isLoggedIn, then sleep 500 ms
PollLogin ==
    /\ loginPc = "poll"
    /\ ~checkpoint
    /\ loginClock < waitUntil
    /\ IF Expired(loginClock)
       THEN /\ loginPc' = "panicked"
            /\ UNCHANGED <<lastCheck, observed, loginClock>>
       ELSE /\ lastCheck' = IF loggedIn THEN "true" ELSE "false"
            /\ observed' = (observed \/ loggedIn)
            /\ loginPc' = IF loggedIn THEN "final" ELSE "poll"
            /\ loginClock' = IF loggedIn THEN loginClock ELSE loginClock + LoginSleep
    /\ UNCHANGED <<loggedIn, browserTimeout, waitUntil, checkpoint, typed, sessionExisted, connVars, mainVars, typeVars, scrollVars, mouseVars, runVars, statsVars, searchVars, msgVars>>

\* time.Now().Before(waitUntil) is false: the loop is left
PollDeadline ==
    /\ loginPc = "poll"
    /\ loginClock >= waitUntil
    /\ loginPc' = "final"
    /\ UNCHANGED <<loggedIn, loginClock, browserTimeout, waitUntil, checkpoint, typed, lastCheck, observed, sessionExisted, connVars, mainVars, typeVars, scrollVars, mouseVars, runVars, statsVars, searchVars, msgVars>>

\* the check after the loop: if !a.isLoggedIn() the error, else nil
FinalCheck ==
    /\ loginPc = "final"
    /\ IF Expired(loginClock)
       THEN /\ loginPc' = "panicked"
            /\ UNCHANGED <<lastCheck, observed>>
       ELSE /\ lastCheck' = IF loggedIn THEN "true" ELSE "false"
            /\ observed' = (observed \/ loggedIn)
            /\ loginPc' = IF loggedIn THEN "success" ELSE "error"
    /\ UNCHANGED <<loggedIn, loginClock, browserTimeout, waitUntil, checkpoint, typed, sessionExisted, connVars, mainVars, typeVars, scrollVars, mouseVars, runVars, statsVars, searchVars, msgVars>>

\* the site logs the user in (the checkpoint is solved) or out
SessionChange ==
    /\ loginPc \in {"submitted", "poll", "final"}
    /\ loggedIn' = ~loggedIn
    /\ UNCHANGED <<loginPc, loginClock, browserTimeout, waitUntil, checkpoint, typed, lastCheck, observed, sessionExisted, connVars, mainVars, typeVars, scrollVars, mouseVars, runVars, statsVars, searchVars, msgVars>>

\* the steps of Login itself
LoginStep ==
    \/ LoginOpen
    \/ CheckSession
    \/ FillLoginForm
    \/ HasSecurityCheckpoint
    \/ PollCheckpoint
    \/ PollLogin
    \/ PollDeadline
    \/ FinalCheck

LoginNext == LoginStep \/ SessionChange

----------------------------------------------------------------------------
(* Table connection_requests *)

RECURSIVE SeqOfSet(_)
\* the elements of a set of integers in increasing order (rowid order)
SeqOfSet(S) ==
    IF S = {} THEN <<>>
    ELSE LET m == CHOOSE x \in S : \A y \in S : x <= y
         IN <<m>> \o SeqOfSet(S \ {m})

\* SELECT ... FROM profiles WHERE id NOT IN (SELECT profile_id FROM
\* connection_requests WHERE status IN ('sent','accepted')) LIMIT 100
getUncontactedProfiles(rows) ==
    SeqOfSet({p \in Profiles :
        ~\E r \in BagToSet(rows) :
            r.profile_id = p /\ r.status \in {"sent", "accepted"}})

\* the rows whose DATE(sent_at) is d
RowsOn(rows, d) ==
    LET S == {r \in BagToSet(rows) : Date(r.sent_at) = d}
    IN [r \in S |-> rows[r]]

\* SELECT COUNT(*) FROM connection_requests WHERE DATE(sent_at) = DATE('now')
getConnectionsSentToday(rows, t) == BagCardinality(RowsOn(rows, Date(t)))

\* INSERT INTO connection_requests (profile_id, status, sent_at) VALUES (?, ?, time.Now())
saveConnectionRequest(rows, profileID, status, t) ==
    rows (+) SetToBag({[profile_id |-> profileID, status |-> status, sent_at |-> t]})

\* the limit taken as reached only when it is exceeded
LimitReached_Negative(remaining) == remaining < 0

\* remaining <= 0: the daily limit is reached
LimitReached(remaining) == remaining <= 0

----------------------------------------------------------------------------
(* SendConnectionRequests, one session *)

IdleSession ==
    [pc |-> "idle", profiles |-> <<>>, i |-> 1, sentToday |-> 0, remaining |-> 0,
     sent |-> 0, interacted |-> 0, ret |-> "none", wakeAt |-> 0, calls |-> 0]

\* the session after SendConnectionRequests returned err: its locals are gone
Returned(c, err) == [IdleSession EXCEPT !.pc = "done", !.ret = err, !.calls = c.calls]

\* no session has started
ConnIdle ==
    /\ now = 0
    /\ connection_requests = EmptyBag
    /\ invited = {}
    /\ conn = [s \in Sessions |-> IdleSession]

ConnInit ==
    /\ ConnIdle
    /\ dailyLimit \in 1..MaxDailyLimit

\* time passes
Tick ==
    /\ now < MaxTime
    /\ now' = now + 1
    /\ UNCHANGED <<connection_requests, dailyLimit, invited, conn, mainVars, typeVars, scrollVars, mouseVars, runVars, statsVars, searchVars, msgVars, loginVars>>

\* SendConnectionRequests is called: getUncontactedProfiles
GetProfiles(s, maxCalls) ==
    /\ conn[s].pc \in {"idle", "done"}
    /\ conn[s].calls < maxCalls
    /\ \E ok \in BOOLEAN :
         LET ps == getUncontactedProfiles(connection_requests)
             c  == [IdleSession EXCEPT !.calls = conn[s].calls + 1]
         IN conn' = [conn EXCEPT ![s] =
                IF ~ok THEN Returned(c, "query error")
                ELSE IF Len(ps) = 0 THEN Returned(c, "nil")
                ELSE [c EXCEPT !.pc = "quota", !.profiles = ps]]
    /\ UNCHANGED <<now, connection_requests, dailyLimit, invited, mainVars, typeVars, scrollVars, mouseVars, runVars, statsVars, searchVars, msgVars, loginVars>>

\* the daily limit check: getConnectionsSentToday, remaining
CheckDailyLimit(s) ==
    /\ conn[s].pc = "quota"
    /\ \E ok \in BOOLEAN :
         LET sentToday == getConnectionsSentToday(connection_requests, now)
             remaining == dailyLimit - sentToday
         IN conn' = [conn EXCEPT ![s] =
                IF ~ok THEN Returned(@, "query error")
                ELSE IF LimitReached(remaining)
                     THEN Returned(@, "daily limit reached")
                     ELSE [@ EXCEPT !.pc = "loop", !.sentToday = sentToday,
                                    !.remaining = remaining, !.sent = 0, !.i = 1]]
    /\ UNCHANGED <<now, connection_requests, dailyLimit, invited, mainVars, typeVars, scrollVars, mouseVars, runVars, statsVars, searchVars, msgVars, loginVars>>

\* the loop ends: no profile left, or sent >= remaining
LoopExit(s) ==
    /\ conn[s].pc = "loop"
    /\ \/ conn[s].i > Len(conn[s].profiles)
       \/ conn[s].sent >= conn[s].remaining
    /\ conn' = [conn EXCEPT ![s] = Returned(@, "nil")]
    /\ UNCHANGED <<now, connection_requests, dailyLimit, invited, mainVars, typeVars, scrollVars, mouseVars, runVars, statsVars, searchVars, msgVars, loginVars>>

\* sendConnectionRequest up to the save: navigation fails (continue), or the
\* connect interaction is carried out in the browser
Interact(s) ==
    /\ conn[s].pc = "loop"
    /\ conn[s].i <= Len(conn[s].profiles)
    /\ conn[s].sent < conn[s].remaining
    /\ \E navigated \in BOOLEAN :
         /\ conn' = [conn EXCEPT ![s] =
            IF navigated THEN [@ EXCEPT !.pc = "save", !.interacted = @ + 1]
            ELSE [@ EXCEPT !.i = @ + 1]]
         /\ invited' = IF navigated
                       THEN invited \cup {conn[s].profiles[conn[s].i]}
                       ELSE invited
    /\ UNCHANGED <<now, connection_requests, dailyLimit, mainVars, typeVars, scrollVars, mouseVars, runVars, statsVars, searchVars, msgVars, loginVars>>

\* saveConnectionRequest succeeds: sent++, then RandomDelay and the cooldown sleep
SaveOk(s) ==
    /\ conn[s].pc = "save"
    /\ connection_requests' =
         saveConnectionRequest(connection_requests,
                               conn[s].profiles[conn[s].i], "sent", now)
    /\ conn' = [conn EXCEPT ![s] =
         [@ EXCEPT !.pc = "sleep", !.sent = @ + 1,
                   !.wakeAt = now + ConnectionCooldown]]
    /\ UNCHANGED <<now, dailyLimit, invited, mainVars, typeVars, scrollVars, mouseVars, runVars, statsVars, searchVars, msgVars, loginVars>>

\* saveConnectionRequest fails: the error is logged, the loop continues
SaveFail(s) ==
    /\ conn[s].pc = "save"
    /\ conn' = [conn EXCEPT ![s] = [@ EXCEPT !.pc = "loop", !.i = @ + 1]]
    /\ UNCHANGED <<now, connection_requests, dailyLimit, invited, mainVars, typeVars, scrollVars, mouseVars, runVars, statsVars, searchVars, msgVars, loginVars>>

\* the cooldown sleep is over (RandomDelay's think time makes it no shorter)
Wake(s) ==
    /\ conn[s].pc = "sleep"
    /\ now >= conn[s].wakeAt
    /\ conn' = [conn EXCEPT ![s] = [@ EXCEPT !.pc = "loop", !.i = @ + 1]]
    /\ UNCHANGED <<now, connection_requests, dailyLimit, invited, mainVars, typeVars, scrollVars, mouseVars, runVars, statsVars, searchVars, msgVars, loginVars>>

SessionStep(s, maxCalls) ==
    \/ GetProfiles(s, maxCalls)
    \/ CheckDailyLimit(s)
    \/ LoopExit(s)
    \/ Interact(s)
    \/ SaveOk(s)
    \/ SaveFail(s)
    \/ Wake(s)

\* one session, calling SendConnectionRequests again and again
SingleNext == Tick \/ SessionStep("s1", MaxCalls)

\* several sessions share the database
ConcurrentNext == Tick \/ \E s \in Sessions : SessionStep(s, MaxConcurrentCalls)

----------------------------------------------------------------------------
(* Specifications *)

\* one run of main
InitMain == MainInit /\ ConnIdle /\ dailyLimit = 1 /\ TypeIdle /\ ScrollIdle /\ MouseIdle /\ RunIdle /\ StatsIdle /\ SearchIdle /\ MsgIdle /\ LoginIdle
SpecMain == InitMain /\ [][MainNext]_vars

\* one call of HumanType
InitType == TypeInit /\ ConnIdle /\ dailyLimit = 1 /\ MainIdle /\ ScrollIdle /\ MouseIdle /\ RunIdle /\ StatsIdle /\ SearchIdle /\ MsgIdle /\ LoginIdle
SpecType == InitType /\ [][TypeNext]_vars

\* one call of HumanType that keeps running: the loop is sequential code
SpecTypeLive == InitType /\ [][TypeNext]_vars /\ WF_vars(TypeNext)

\* one call of ScrollHumanLike
InitScroll == ScrollInit /\ ConnIdle /\ dailyLimit = 1 /\ MainIdle /\ TypeIdle /\ MouseIdle /\ RunIdle /\ StatsIdle /\ SearchIdle /\ MsgIdle /\ LoginIdle
SpecScroll == InitScroll /\ [][ScrollNext]_vars

\* one session sending connection requests
InitConnection == ConnInit /\ MainIdle /\ TypeIdle /\ ScrollIdle /\ MouseIdle /\ RunIdle /\ StatsIdle /\ SearchIdle /\ MsgIdle /\ LoginIdle
SpecSingleSession == InitConnection /\ [][SingleNext]_vars

\* two sessions sending connection requests against one database
SpecConcurrent == InitConnection /\ [][ConcurrentNext]_vars

\* one call of moveMouseToElement
InitMouse == MouseInit /\ ConnIdle /\ dailyLimit = 1 /\ MainIdle /\ TypeIdle /\ ScrollIdle /\ RunIdle /\ StatsIdle /\ SearchIdle /\ MsgIdle /\ LoginIdle
SpecMouse == InitMouse /\ [][MouseNext]_vars

\* two runs of the program with the same random source
InitRuns == RunInit /\ ConnIdle /\ dailyLimit = 1 /\ MainIdle /\ TypeIdle /\ ScrollIdle /\ MouseIdle /\ StatsIdle /\ SearchIdle /\ MsgIdle /\ LoginIdle
SpecRuns == InitRuns /\ [][RunNext]_vars

\* calls on table daily_stats, starting from the empty table
InitStats ==
    /\ StatsIdle /\ ConnIdle /\ dailyLimit = 1 /\ MainIdle /\ TypeIdle /\ ScrollIdle
    /\ MouseIdle /\ RunIdle /\ SearchIdle /\ MsgIdle /\ LoginIdle
SpecStats == InitStats /\ [][StatsNext]_vars

\* the machines of the earlier sections are idle
Elsewhere == ConnIdle /\ dailyLimit = 1 /\ MainIdle /\ TypeIdle /\ ScrollIdle /\ MouseIdle /\ RunIdle

\* one call of SearchProfiles
InitSearch == SearchInit /\ Elsewhere /\ StatsIdle /\ MsgIdle /\ LoginIdle
SpecSearch == InitSearch /\ [][SearchNext]_vars

\* calls of SendMessage, SendBulkMessages and SendFollowUpMessages
InitMessaging == MsgIdle /\ Elsewhere /\ StatsIdle /\ SearchIdle /\ LoginIdle
SpecMessaging == InitMessaging /\ [][MsgNext]_vars

\* one call of Login; its steps are taken one after the other
InitLogin == LoginInit /\ Elsewhere /\ StatsIdle /\ SearchIdle /\ MsgIdle
SpecLogin == InitLogin /\ [][LoginNext]_vars /\ WF_vars(LoginStep)

----------------------------------------------------------------------------
(* Claims about the daily limit and the cooldown *)

\* the dates the clock can show
Dates == 0..Date(MaxTime)

\* the number of connection requests committed for date d
CommittedOn(d) == BagCardinality(RowsOn(connection_requests, d))

\* C1: with several sessions running SendConnectionRequests against one
\* database, the number of connection requests committed for one calendar
\* date never exceeds DailyLimit.
C1_DailyLimitNeverExceeded == \A d \in Dates : CommittedOn(d) <= dailyLimit

\* the step in which the single session decides on the daily limit
C2_QuotaDecision ==
    LET c == conn["s1"]
        n == CommittedOn(Date(now))
    IN (c.pc = "quota" /\ conn'["s1"].pc # "quota" /\ conn'["s1"].ret # "query error") =>
          IF n >= dailyLimit
          THEN /\ conn'["s1"].pc = "done"
               /\ conn'["s1"].ret = "daily limit reached"
               /\ connection_requests' = connection_requests
          ELSE /\ conn'["s1"].pc = "loop"
               /\ conn'["s1"].sentToday = n
               /\ conn'["s1"].remaining = dailyLimit - n

\* a request is committed only while fewer than DailyLimit are committed for the date
C2_CommitBelowLimit ==
    (connection_requests' # connection_requests) =>
        /\ CommittedOn(Date(now)) < dailyLimit
        /\ BagCardinality(RowsOn(connection_requests', Date(now))) = CommittedOn(Date(now)) + 1

\* a new date starts with a count of 0
C2_NewDateStartsAtZero ==
    (Date(now') # Date(now)) => BagCardinality(RowsOn(connection_requests', Date(now'))) = 0

\* C2: for a single session and any daily limit L >= 1, exactly the first L
\* attempts of a date are allowed (at most L requests are committed for a
\* date, and an attempt is allowed while fewer than L are), every later
\* attempt on that date is rejected with "daily limit reached", and the
\* following date starts again with a count of 0.
C2_SingleSessionQuota ==
    /\ [](\A d \in Dates : CommittedOn(d) <= dailyLimit)
    /\ [][C2_QuotaDecision /\ C2_CommitBelowLimit /\ C2_NewDateStartsAtZero]_connVars

\* C2 witness: the limit was used up on one date, the attempts of the following
\* date were allowed again, and the attempt after them is rejected
C2_Witness ==
    /\ conn["s1"].pc = "done"
    /\ conn["s1"].ret = "daily limit reached"
    /\ Date(now) >= 1
    /\ CommittedOn(Date(now)) = dailyLimit
    /\ CommittedOn(Date(now) - 1) = dailyLimit

\* C3: after a connection request is committed at t0, no connect action is
\* performed at a time t with t - t0 < cooldown, also when the attempt comes
\* from another call or run than the one that committed.
C3_NoActionWithinCooldown ==
    [][\A s \in Sessions :
         (conn[s].pc = "loop" /\ conn'[s].pc = "save") =>
            \A r \in BagToSet(connection_requests) :
                now - r.sent_at >= ConnectionCooldown]_connVars

\* the step of session s is the call of SendConnectionRequests
CallStarts(s) == conn[s].pc \in {"idle", "done"} /\ conn'[s].calls = conn[s].calls + 1

C28_InteractionsWithinRemaining ==
    \A s \in Sessions :
        conn[s].pc \in {"loop", "save", "sleep"} =>
            conn[s].interacted <= conn[s].remaining

----------------------------------------------------------------------------
(* Claims about the schedule gate and main *)

\* C4: ShouldOperate returns true whenever Scheduling.Enabled or
\* BusinessHoursOnly is false, at every hour; when both are true it returns
\* true exactly when StartHour <= hour < EndHour.
C4_ShouldOperate ==
    mainPc # "start" =>
        /\ (~scheduling.Enabled \/ ~scheduling.BusinessHoursOnly) => gate
        /\ (scheduling.Enabled /\ scheduling.BusinessHoursOnly) =>
              (gate <=> (scheduling.StartHour <= hour /\ hour < scheduling.EndHour))

\* C4 witness: business hours 9..17 are enforced and ShouldOperate was asked
\* at hour 17, the first hour after the window
C4_Witness ==
    /\ mainPc # "start"
    /\ scheduling.Enabled /\ scheduling.BusinessHoursOnly
    /\ scheduling.StartHour = 9 /\ scheduling.EndHour = 17
    /\ hour = 17
    /\ ~gate

\* C5: in every run of main, no search or message phase (and no connection
\* request) is executed while ShouldOperate returns false.
C5_NoPhaseOutsideHours ==
    \A k \in 1..Len(ran) :
        ran[k] \in {"search", "message"} => ShouldOperate(scheduling, hour)

\* C6: RandomBreak takes no break when Scheduling.Enabled is false and none
\* when BreakProbability is 0, and a break it takes lasts between 60 and 300
\* seconds.
C6_BreakContract ==
    lastBreak > 0 =>
        /\ scheduling.Enabled
        /\ scheduling.BreakProbability > 0
        /\ 60 <= lastBreak /\ lastBreak <= 300

\* the phases main has run, without the breaks
Phases == SelectSeq(ran, LAMBDA x : x # "break")

\* main has ended
MainEnded == mainPc \in {"completed", "exited", "crashed"}

\* C25: in mode all, main runs search, a random break, connect, a random
\* break and message in this order, whatever fails in an earlier phase; in
\* the modes search, connect and message the phase runs alone and its failure
\* ends the process with status 1; an unknown mode runs no phase and exits
\* with status 1.
C25_PhaseOrder ==
    MainEnded =>
          /\ \A k \in 1..Len(ran) : ran[k] = "break" => (k > 1 /\ k < Len(ran))
          /\ mode = "all" => (Phases = <<"search", "connect", "message">> /\ exitCode = 0)
          /\ mode \in {"search", "connect", "message"} =>
                (Phases = <<mode>> /\ ran = Phases /\ exitCode \in {0, 1})
          /\ mode \notin {"search", "connect", "message", "all"} =>
                (ran = <<>> /\ exitCode = 1)

----------------------------------------------------------------------------
(* Claims about HumanType *)

\* C7: for every text T and every sequence of draws, the text that results
\* from the keystrokes HumanType sends (a backspace removing the keystroke
\* before it) equals T: the characters typed so far while it types, T when it
\* has returned.
C7_TypedTextEqualsInput ==
    /\ typePc = "typing" => Replay(keys) = SubSeq(text, 1, typeI - 1)
    /\ typePc = "done" => Replay(keys) = text

\* C7 witness: HumanType has returned from a text of two or more characters,
\* one typed with a typo and one without
C7_Witness ==
    /\ typePc = "done"
    /\ Len(text) >= 2
    /\ \E i \in 1..Len(keys) : keys[i].k = "typo"
    /\ \E j \in 1..Len(text) :
          ~\E i \in 1..Len(keys) : keys[i].k = "typo" /\ keys[i].at = j

\* C8 as claimed: a typo injected for a character is sent before that
\* character (typo, backspace, character), so with typoProbability = 1 every
\* character is preceded by its typo+backspace pair.
C8_TypoBeforeCharacter ==
    \A i \in 1..Len(keys) :
        keys[i].k = "typo" =>
            /\ i + 2 <= Len(keys)
            /\ keys[i + 1].k = "backspace"
            /\ keys[i + 2] = Key("char", text[keys[i].at], keys[i].at)

\* C8 as amended: a typo injected for a character is sent right after that
\* character and is followed by its backspace (character, typo, backspace);
\* with typoProbability = 1 and typing enabled, the keystrokes of a completed
\* HumanType are, for every character of T in order, the character followed by
\* exactly one typo+backspace pair.
C8_TypoAfterCharacter ==
    /\ \A i \in 1..Len(keys) :
          keys[i].k = "typo" =>
              /\ i >= 2 /\ i + 1 <= Len(keys)
              /\ keys[i].c = TypoChar
              /\ keys[i - 1] = Key("char", text[keys[i].at], keys[i].at)
              /\ keys[i + 1] = Key("backspace", Backspace, keys[i].at)
    /\ (typePc = "done" /\ typing.Enabled /\ typing.TypoProbability = Grid) =>
          /\ Len(keys) = 3 * Len(text)
          /\ \A j \in 1..Len(text) :
                /\ keys[3 * j - 2] = Key("char", text[j], j)
                /\ keys[3 * j - 1] = Key("typo", TypoChar, j)
                /\ keys[3 * j] = Key("backspace", Backspace, j)

\* C8 witness: HumanType has returned with typoProbability = 1 from a text of
\* two or more characters
C8_Witness ==
    /\ typePc = "done"
    /\ typing.Enabled /\ typing.TypoProbability = Grid
    /\ Len(text) >= 2
    /\ \E i \in 1..Len(keys) : keys[i].k = "typo"

\* C9: with typoProbability = 0 HumanType sends no typo and no backspace, and
\* when it has returned it has sent len(T) keystrokes, the characters of T in
\* order.
C9_NoTypoAtProbabilityZero ==
    typing.TypoProbability = 0 =>
        /\ \A i \in 1..Len(keys) : keys[i].k = "char"
        /\ typePc = "done" =>
              /\ Len(keys) = Len(text)
              /\ \A j \in 1..Len(text) : keys[j].c = text[j]

\* C9 witness: typing is enabled, typoProbability = 0 and HumanType has
\* returned from a text of two or more characters
C9_Witness ==
    /\ typePc = "done"
    /\ typing.Enabled /\ typing.TypoProbability = 0
    /\ Len(text) >= 2
    /\ Len(keys) = Len(text)

\* the number of keystrokes of kind k sent for the character at position j
KeyCount(k, j) == Cardinality({i \in 1..Len(keys) : keys[i].k = k /\ keys[i].at = j})

\* C22: HumanType sends at most one typo+backspace pair per character and
\* never re-attempts a character, so for a text of length n it has sent
\* between n and 3n keystrokes when it returns, and it does end; for the empty
\* text it sends no keystroke and draws no delay.
C22_BoundedKeystrokes ==
    /\ [](\A j \in 1..Len(text) :
            /\ KeyCount("char", j) <= 1
            /\ KeyCount("typo", j) <= 1
            /\ KeyCount("backspace", j) = KeyCount("typo", j))
    /\ [](typePc = "done" =>
            (Len(text) <= Len(keys) /\ Len(keys) <= 3 * Len(text)))
    /\ [](text = <<>> => (keys = <<>> /\ lastDelay = 0))
    /\ [][typePc = "typing" => (typeI' = typeI + 1 \/ typePc' # "typing")]_typeVars
    /\ <>(typePc \in {"done", "panicked"})

\* C22 witness: HumanType has returned from a text of two or more characters
\* with a typo on some character and none on another
C22_Witness ==
    /\ typePc = "done"
    /\ Len(text) >= 2
    /\ Len(text) < Len(keys) /\ Len(keys) < 3 * Len(text)

----------------------------------------------------------------------------
(* Claims about ScrollHumanLike *)

\* the loop of ScrollHumanLike has issued all its steps
StepsIssued == scrollPc \in {"done", "panicked"} \/ (scrollPc = "loop" /\ scrollI = steps)

\* C10 as claimed: for a forward scroll of distance D > 0 the sum of the
\* forward step deltas equals D within one pixel per step, for every step
\* count and every variance draw.
C10_ForwardSumEqualsDistance ==
    StepsIssued =>
        /\ forward - distance <= steps
        /\ distance - forward <= steps

\* C10 as amended: the sum of the forward step deltas lies, within one pixel
\* per step, between D*(1 - V/2) and D*(1 + V/2), V = ScrollSpeedVariance; it
\* equals D within one pixel per step when V = 0, and exactly when scrolling
\* is disabled.
C10_ForwardSumWithinVariance ==
    StepsIssued =>
        LET v == scrolling.ScrollSpeedVariance
        IN /\ 2 * VarianceDen * (forward + steps) >= distance * (2 * VarianceDen - v)
           /\ 2 * VarianceDen * (forward - steps) <= distance * (2 * VarianceDen + v)
           /\ v = 0 => (forward - distance <= steps /\ distance - forward <= steps)
           /\ ~scrolling.Enabled => forward = distance

\* C10 witness: all steps of a scroll of 1000 with a variance above 0 are
\* issued and their sum is more than one pixel per step away from 1000
C10_Witness ==
    /\ scrollPc = "loop" /\ scrollI = steps
    /\ distance = 1000
    /\ scrolling.ScrollSpeedVariance > 0
    /\ distance - forward > steps

C12_ScrollBackSmallerThanDistance ==
    (back < 0 /\ distance > 0) =>
        /\ -back < distance
        /\ forward + back > 0

\* C19: every connection request performed in the browser (the session leaves
\* position "save") raises the persisted count of the current date by exactly
\* one, and an attempt that fails before the request is performed (the
\* navigation fails) leaves the table unchanged.
C19_CountFollowsAction ==
    [][\A s \in Sessions :
         /\ (conn[s].pc = "save" /\ conn'[s].pc # "save") =>
                BagCardinality(RowsOn(connection_requests', Date(now))) = CommittedOn(Date(now)) + 1
         /\ (conn[s].pc = "loop" /\ conn'[s].pc = "loop") =>
                connection_requests' = connection_requests]_connVars

\* C18: for every distance D >= 1 and every scroll_back_probability in [0,1]
\* ScrollHumanLike completes without a runtime failure.
C18_ScrollNeverFails == scrollPc # "panicked"

----------------------------------------------------------------------------
(* Claims about moveMouseToElement *)

\* the distance below which two coordinates count as the same place: one pixel
Epsilon == Unit

\* C13: for every start and target and every sequence of draws, micro-
\* corrections included, the first point of the path equals the start
\* position and the last point is within epsilon of the target.
C13_PathEndpoints ==
    /\ mouseI >= 1 => firstPoint = current
    /\ mousePc = "done" =>
          (lastPoint - target <= Epsilon /\ target - lastPoint <= Epsilon)

\* C14: the number of moves of a path lies within 25..40, and the sleep after
\* every move, the first one at t = 0 included, is longer than 0.
C14_StepCountAndDelays ==
    /\ sleepsPositive
    /\ mousePc = "done" =>
          (mouseI \in MouseStepsMin..(MouseStepsMin + MouseStepsSpan)
           /\ mouseSteps \in MouseStepsMin..(MouseStepsMin + MouseStepsSpan))

\* C14 witness: moveMouseToElement has returned from the longest path
C14_Witness ==
    /\ mousePc = "done"
    /\ mouseSteps = MouseStepsMin + MouseStepsSpan - 1
    /\ mouseI = mouseSteps + 1

\* C15: with overshoot_probability = 1 every path goes past the target before
\* it ends at the target; with overshoot_probability = 0 no path goes past it.
C15_OvershootHonoured ==
    mousePc = "done" =>
        /\ mouse.OvershootProbability = Grid =>
              (wentPast /\ lastPoint - target <= Epsilon /\ target - lastPoint <= Epsilon)
        /\ mouse.OvershootProbability = 0 => ~wentPast

----------------------------------------------------------------------------
(* Claims about a Stealth instance *)

\* what a run has produced
Outputs(r) == [viewport |-> run[r].viewport, delay |-> run[r].delay,
               hovered |-> run[r].hovered, hover |-> run[r].hover]

\* C16: two Stealth instances with the same configuration, inputs and random
\* source produce identical outputs for every generator: at the same position
\* of the two runs the viewport, the think time and the hover are the same.
C16_SameSourceSameOutputs ==
    run["r1"].pc = run["r2"].pc => Outputs("r1") = Outputs("r2")

\* C17: a range with max <= min is treated as max = min + 1 in every operation
\* that samples from a configured range: no run panics, and the think time and
\* the hover duration sampled from such a range are exactly min.
C17_RangeNormalised ==
    \A r \in Runs :
        /\ run[r].pc # "panicked"
        /\ (timing.Enabled /\ timing.MaxThinkTime <= timing.MinThinkTime
              /\ run[r].pc \in {"delayed", "done"}) => run[r].delay = timing.MinThinkTime
        /\ (run[r].hovered /\ hovering.HoverDurationMax <= hovering.HoverDurationMin)
              => run[r].hover = hovering.HoverDurationMin

\* C20: RandomDelay and HumanClick only return a duration and leave the clock
\* untouched: no time is slept inside them.
C20_GeneratorsNeverSleep == \A r \in Runs : run[r].slept = 0

\* the positions of event e in the events of run r
EventsAt(r, e) == {i \in 1..Len(run[r].events) : run[r].events[i] = e}

\* C23: HumanClick clicks the element exactly once per call in every
\* configuration; the pointer move, if mouse movement is enabled, comes before
\* the hover pause and the hover pause before the click; a hover pause occurs
\* only when hovering is enabled and the draw is below hover_probability, and
\* its duration lies in [hover_duration_min, hover_duration_max].
C23_ClickOnceInOrder ==
    \A r \in Runs :
        /\ run[r].pc \in {"done", "panicked"} =>
              /\ Cardinality(EventsAt(r, "click")) = 1
              /\ Cardinality(EventsAt(r, "move")) = (IF movement THEN 1 ELSE 0)
              /\ \A i \in EventsAt(r, "move"), j \in EventsAt(r, "hover") : i < j
              /\ \A i \in EventsAt(r, "hover"), j \in EventsAt(r, "click") : i < j
              /\ \A i \in EventsAt(r, "move"), j \in EventsAt(r, "click") : i < j
        /\ EventsAt(r, "hover") # {} =>
              /\ hovering.Enabled /\ hovering.HoverProbability > 0
              /\ hovering.HoverDurationMin <= run[r].hover
              /\ run[r].hover <= hovering.HoverDurationMax

----------------------------------------------------------------------------
(* Claims about table daily_stats *)

\* the counts of date d in table stats, 0 when it has no row
CountOf(stats, d, column) == IF d \in DOMAIN stats THEN stats[d][column] ELSE 0

\* the step is a successful increment of column by the call named op
C24_Increment(op, column, other) ==
    (statsCall'.op = op /\ ~statsCall'.err /\ statsCalls' = statsCalls + 1) =>
        LET d == DateKey(statsCall'.t)
        IN /\ DOMAIN daily_stats' = DOMAIN daily_stats \cup {d}
           /\ daily_stats'[d][column] = CountOf(daily_stats, d, column) + 1
           /\ daily_stats'[d][other] = CountOf(daily_stats, d, other)
           /\ \A k \in DOMAIN daily_stats \ {d} : daily_stats'[k] = daily_stats[k]

\* C24: the daily counters are keyed by (kind, date): IncrementDailyConnections(d)
\* raises connections_sent of d by exactly 1 (creating the row with 1 and
\* messages_sent 0 when absent) and leaves messages_sent of d and every row of
\* every other date unchanged; IncrementDailyMessages(d) is symmetric;
\* GetDailyStats for a date with no row returns zero counts and creates no row.
C24_DailyCounters ==
    [][/\ C24_Increment("IncrementDailyConnections", "connections_sent", "messages_sent")
       /\ C24_Increment("IncrementDailyMessages", "messages_sent", "connections_sent")
       /\ (statsCall'.op = "GetDailyStats" /\ statsCalls' = statsCalls + 1) =>
             /\ daily_stats' = daily_stats
             /\ (~statsCall'.err /\ DateKey(statsCall'.t) \notin DOMAIN daily_stats) =>
                   statsResult' = ZeroStats]_statsVars

\* C24 witness: a date holds both counters above 0 next to the row of another
\* date, and the last call raised connections_sent of a date that had a row
C24_Witness ==
    /\ statsCall.op = "IncrementDailyConnections" /\ ~statsCall.err
    /\ Cardinality(DOMAIN daily_stats) >= 2
    /\ DateKey(statsCall.t) \in DOMAIN daily_stats
    /\ daily_stats[DateKey(statsCall.t)].connections_sent >= 2
    /\ daily_stats[DateKey(statsCall.t)].messages_sent >= 1

----------------------------------------------------------------------------
(* Claims about SearchProfiles *)

\* C27: SearchProfiles filters duplicates and respects the result cap: the
\* returned list has at most Search.MaxResults entries, contains no URL that
\* was stored before the search, and contains no URL twice, also when saving
\* a profile fails.
C27_CappedAndDistinct ==
    searchPc = "done" =>
        /\ Len(found) <= maxResults
        /\ \A k \in 1..Len(found) : found[k] \notin storedBefore
        /\ \A j, k \in 1..Len(found) : j # k => found[j] # found[k]

----------------------------------------------------------------------------
(* Claims about messaging *)

\* C29: over any sequence of SendMessage, SendBulkMessages and
\* SendFollowUpMessages calls at most one message is sent to each profile
\* URL, also when the HasMessage lookup fails and when AddMessage fails after
\* the message was sent.
C29_AtMostOneMessage == \A u \in Urls : delivered[u] <= 1

----------------------------------------------------------------------------
(* Claims about Login *)

\* C30: Login always terminates; it returns success only if its last
\* isLoggedIn check was true; if the logged-in state is not observed in the
\* polling that follows the form it returns an error; when a session exists
\* after opening the login page it returns success without typing the
\* credentials.
C30_LoginContract ==
    /\ <>LoginEnded
    /\ [](loginPc = "success" => lastCheck = "true")
    /\ []((LoginEnded /\ waitUntil > 0 /\ ~observed) => loginPc = "error")
    /\ []((LoginEnded /\ sessionExisted) => (loginPc = "success" /\ ~typed))


====
